---- MODULE Spec2Model ----
(***************************************************************************)
(* A model of the C-script language tool chain: the C type model and its   *)
(* layout algorithm (c_type.py), the declaration extraction store          *)
(* (extract_headers.py), the header registry (c_headers.py, c_stdlib.py)   *)
(* and the bytecode compiler with its instruction set (compiler.py,        *)
(* vm_bytecode.py).                                                        *)
(***************************************************************************)
EXTENDS Integers, Sequences, FiniteSets, TLC

VARIABLES
    \* ---- compiler.py: one Compiler instance during one compilation
    pc,            \* position of Compiler.start: imports | module | done | failed
    definitions,   \* Compiler.definitions: symbol name -> CDeclFunction
    constants,     \* Compiler.constants: keys in insertion order (index = position - 1)
    functions,     \* Compiler.functions: keys in insertion order
    pending,       \* results of visit_children not yet consumed by a parent call
    statements,    \* results of visit_children(module), in statement order
    bytecode,      \* the Bytecode returned by start (NoBytecode until then)
    error,         \* the exception that aborted the compilation (NoError until then)
    \* ---- c_type.py: the process-wide layout caches
    sizeof_cache,  \* _sizeof_cache: CType -> size
    alignof_cache, \* _alignof_cache: CType -> alignment
    offsets_cache, \* _offsets_cache: CType -> (field name -> offset)
    query,         \* the last layout call made and what it returned or raised
    nqueries,      \* layout calls made so far
    \* ---- c_type.py: one encode / decode of a type
    jpc,           \* idle | encoded | decoded
    jtype,         \* the CType handed to to_json
    jdoc,          \* the document to_json returned
    jback,         \* what from_json made of the document
    \* ---- extract_headers.py: one DeclarationExtraction over one FullHeader
    xpc,           \* visiting | failed (an exception left the visitor)
    types,         \* FullHeader.types: typedef name -> CType
    variables,     \* FullHeader.variables: name -> CType
    structs,       \* FullHeader.structs: name -> CType
    unions,        \* FullHeader.unions: name -> CType
    seen,          \* the type nodes of the declarations visited so far
    \* ---- extract_headers.py: extract_header and the header cache
    cache_dir,     \* CACHE_DIR: file name -> content, a sequence of chunks
    xh,            \* per process: the extract_header call it is in
    cached,        \* headers extracted with success since the last invalidation
    ncalls,        \* extract_header calls started
    \* ---- c_headers.py: the headers of the registry
    function_cache, \* header name -> CHeader._function_cache
    proc,          \* the last get_proc call and how it ended
    first_proc     \* (header, name) -> what its first resolution returned

compilerVars == <<pc, definitions, constants, functions, pending, statements, bytecode, error>>

layoutVars == <<sizeof_cache, alignof_cache, offsets_cache, query, nqueries>>

jsonVars == <<jpc, jtype, jdoc, jback>>

extractionVars == <<xpc, types, variables, structs, unions, seen>>

cacheVars == <<cache_dir, xh, cached, ncalls>>

registryVars == <<function_cache, proc, first_proc>>

vars == <<compilerVars, layoutVars, jsonVars, extractionVars, cacheVars, registryVars>>

(***************************************************************************)
(* Bounds of the model.                                                    *)
(***************************************************************************)
MaxNodes == 4   \* syntax-tree nodes (string literals and calls) in one program
MaxArgs == 2    \* arguments written in one call expression
MaxCalls == 3   \* extract_header calls started, over all processes
MaxDecls == 3   \* declarations visited in one header
MaxDepth == 2   \* nesting depth of the types encoded and decoded
MaxQueries == 2 \* layout calls (sizeof, alignof, offsetsof) in one process

(***************************************************************************)
(* Optional[...] values: None is the empty tuple, a present value a        *)
(* one-element tuple.                                                      *)
(***************************************************************************)
None == <<>>
Some(x) == <<x>>

Max(a, b) == IF a > b THEN a ELSE b
Min(a, b) == IF a < b THEN a ELSE b

(***************************************************************************)
(* c_type.py: the CType variants.  The field k is the Python class, which  *)
(* dataclass equality compares first.                                      *)
(***************************************************************************)
CVoid == [k |-> "CVoid"]
CSpecialType(name) == [k |-> "CSpecialType", name |-> name]
CIntegral(name, unsigned) == [k |-> "CIntegral", name |-> name, unsigned |-> unsigned]
CFloatingPoint(name) == [k |-> "CFloatingPoint", name |-> name]
COpaqueStruct(name) == [k |-> "COpaqueStruct", name |-> name]
CStruct(name, decls) == [k |-> "CStruct", name |-> name, decls |-> decls]
COpaqueUnion(name) == [k |-> "COpaqueUnion", name |-> name]
CUnion(name, decls) == [k |-> "CUnion", name |-> name, decls |-> decls]
CArray(base, dim) == [k |-> "CArray", base |-> base, dim |-> dim]
CEnum(name, values) == [k |-> "CEnum", name |-> name, values |-> values]
CFunc(args, return_type, varargs) ==
    [k |-> "CFunc", args |-> args, return_type |-> return_type, varargs |-> varargs]
CPointer(base) == [k |-> "CPointer", base |-> base]

c_void == CVoid
va_list == CSpecialType("va_list")
c_schar == CIntegral("char", FALSE)
c_uchar == CIntegral("char", TRUE)
c_sshort == CIntegral("short", FALSE)
c_ushort == CIntegral("short", TRUE)
c_sint == CIntegral("int", FALSE)
c_uint == CIntegral("int", TRUE)
c_slong_long == CIntegral("long long", FALSE)
c_ulong_long == CIntegral("long long", TRUE)
c_float == CFloatingPoint("float")
c_double == CFloatingPoint("double")
c_void_p == CPointer(c_void)
c_char_p == CPointer(c_uchar)
\* c_stdlib.py imports c_int from c_type; the spec's "int" is the signed int.
c_int == c_sint

(***************************************************************************)
(* c_type.py: the layout algorithm.  The three module-level caches are     *)
(* threaded through the recursion as L = [s, a, o]; a call returns the     *)
(* caches as it leaves them, also when it raises (err is the exception).   *)
(***************************************************************************)
\* ctypes.sizeof / ctypes.alignment of the native integer types
ctypes_sizeof(name) ==
    CASE name = "char" -> 1
      [] name = "short" -> 2
      [] name = "int" -> 4
      [] name = "long" -> 4
      [] name = "long long" -> 8

IntegralTypes ==
    {CIntegral(n, u) : n \in {"char", "short", "int", "long", "long long"}, u \in BOOLEAN}

\* the caches as the module's import leaves them
InitialCaches ==
    [s |-> [t \in IntegralTypes |-> ctypes_sizeof(t.name)],
     a |-> [t \in IntegralTypes |-> ctypes_sizeof(t.name)],
     o |-> <<>>]

DefaultPack == 8

NoOffsets == <<>>

LayoutResult(L, err, val, offsets) == [L |-> L, err |-> err, val |-> val, offsets |-> offsets]

RECURSIVE sizeof(_, _, _)
RECURSIVE alignof(_, _, _)
RECURSIVE offsetsof(_, _, _)
RECURSIVE sizeof_struct_fields(_, _, _, _)
RECURSIVE sizeof_union_fields(_, _, _, _)

alignof(t, pack, L) ==
    LET r == IF t \notin DOMAIN L.a THEN sizeof(t, pack, L) ELSE LayoutResult(L, "ok", 0, NoOffsets)
    IN  IF r.err # "ok" THEN r
        ELSE IF t \in DOMAIN r.L.a THEN LayoutResult(r.L, "ok", r.L.a[t], NoOffsets)
        ELSE LayoutResult(r.L, "NotImplementedError", -1, NoOffsets)

offsetsof(t, pack, L) ==
    LET r == IF t \notin DOMAIN L.o THEN sizeof(t, pack, L) ELSE LayoutResult(L, "ok", 0, NoOffsets)
    IN  IF r.err # "ok" THEN r
        ELSE IF t \in DOMAIN r.L.o THEN LayoutResult(r.L, "ok", -1, r.L.o[t])
        ELSE LayoutResult(r.L, "NotImplementedError", -1, NoOffsets)

\* the loop of the CStruct case from field i on; acc = [L, err, offset, align, offsets]
sizeof_struct_fields(decls, i, pack, acc) ==
    IF i > Len(decls) \/ acc.err # "ok" THEN acc
    ELSE LET name == decls[i][1]
             ty == decls[i][2]
             rs == sizeof(ty, DefaultPack, acc.L)
             ra == alignof(ty, DefaultPack, rs.L)
             e_a == Min(pack, ra.val)
             align == Max(acc.align, e_a)
             err == acc.offset % e_a
             offset == IF err # 0 THEN acc.offset + (e_a - err) ELSE acc.offset
             ro == offsetsof(ty, DefaultPack, ra.L)
         IN  IF rs.err # "ok" THEN [acc EXCEPT !.L = rs.L, !.err = rs.err]
             ELSE IF ra.err # "ok" THEN [acc EXCEPT !.L = ra.L, !.err = ra.err]
             ELSE IF name = None /\ ty.k \notin {"CUnion", "CStruct"}
             THEN [acc EXCEPT !.L = ra.L, !.err = "AssertionError"]
             ELSE IF name = None /\ ro.err # "ok"
             THEN [acc EXCEPT !.L = ro.L, !.err = ro.err]
             ELSE sizeof_struct_fields(decls, i + 1, pack,
                     [L |-> IF name = None THEN ro.L ELSE ra.L,
                      err |-> "ok",
                      offset |-> offset + rs.val,
                      align |-> align,
                      offsets |->
                          IF name = None
                          THEN [n \in DOMAIN ro.offsets |-> offset + ro.offsets[n]] @@ acc.offsets
                          ELSE (name[1] :> offset) @@ acc.offsets])

\* the loop of the CUnion case from field i on; acc = [L, err, size, align]
sizeof_union_fields(decls, i, pack, acc) ==
    IF i > Len(decls) \/ acc.err # "ok" THEN acc
    ELSE LET ty == decls[i][2]
             rs == sizeof(ty, DefaultPack, acc.L)
             ra == alignof(ty, DefaultPack, rs.L)
             e_a == Min(pack, ra.val)
         IN  IF rs.err # "ok" THEN [acc EXCEPT !.L = rs.L, !.err = rs.err]
             ELSE IF ra.err # "ok" THEN [acc EXCEPT !.L = ra.L, !.err = ra.err]
             ELSE sizeof_union_fields(decls, i + 1, pack,
                     [L |-> ra.L, err |-> "ok",
                      size |-> Max(acc.size, rs.val),
                      align |-> Max(acc.align, e_a)])

\* what the CStruct case stores for a struct whose fields end at offset
struct_size(offset, align) ==
    LET err == offset % align
        rounded == IF err # 0 THEN offset + (align - err) ELSE offset
    IN  IF rounded = 0 THEN 1 ELSE rounded

\* the CUnion case after its loop: the cache entries written, then the assert
sizeof_union_store(t, r) ==
    LET L2 == [r.L EXCEPT !.a = (t :> r.align) @@ @, !.s = (t :> r.size) @@ @]
    IN  IF r.size = 0
        THEN LayoutResult(L2, "AssertionError", -1, NoOffsets)
        ELSE LayoutResult(L2, "ok", L2.s[t], NoOffsets)

sizeof(t, pack, L) ==
    IF t \in DOMAIN L.s THEN LayoutResult(L, "ok", L.s[t], NoOffsets)
    ELSE CASE t.k = "CStruct" ->
                LET r == sizeof_struct_fields(t.decls, 1, pack,
                            [L |-> L, err |-> "ok", offset |-> 0, align |-> 1,
                             offsets |-> NoOffsets])
                    L2 == [s |-> (t :> struct_size(r.offset, r.align)) @@ r.L.s,
                           a |-> (t :> r.align) @@ r.L.a,
                           o |-> (t :> r.offsets) @@ r.L.o]
                IN  IF r.err # "ok" THEN LayoutResult(r.L, r.err, -1, NoOffsets)
                    ELSE LayoutResult(L2, "ok", L2.s[t], NoOffsets)
           [] t.k = "CUnion" ->
                LET r == sizeof_union_fields(t.decls, 1, pack,
                            [L |-> L, err |-> "ok", size |-> 0, align |-> 1])
                IN  IF r.err # "ok" THEN LayoutResult(r.L, r.err, -1, NoOffsets)
                    ELSE sizeof_union_store(t, r)
           [] t.k = "CArray" /\ t.dim = None ->
                LayoutResult(L, "ValueError", -1, NoOffsets)
           [] t.k = "CArray" /\ t.dim # None ->
                LET ra == alignof(t.base, DefaultPack, L)
                    L1 == [ra.L EXCEPT !.a = (t :> ra.val) @@ @]
                    rs == sizeof(t.base, DefaultPack, L1)
                    L2 == [rs.L EXCEPT !.s = (t :> (rs.val * t.dim[1])) @@ @]
                IN  IF ra.err # "ok" THEN ra
                    ELSE IF rs.err # "ok" THEN rs
                    ELSE IF rs.val % ra.val # 0
                    THEN LayoutResult(rs.L, "ValueError", -1, NoOffsets)
                    ELSE LayoutResult(L2, "ok", L2.s[t], NoOffsets)
           [] OTHER -> LayoutResult(L, "NotImplementedError", -1, NoOffsets)

\* the types the layout calls are made on
S1 == CStruct(Some("S1"), << <<Some("a"), c_schar>>, <<Some("b"), c_sint>> >>)
S2 == CStruct(Some("S2"), << <<Some("c"), c_schar>>, <<Some("s"), S1>> >>)
U0 == CUnion(Some("U0"), <<>>)
U1 == CUnion(Some("U1"), << <<Some("i"), c_sint>>, <<Some("c"), c_schar>> >>)
U2 == CUnion(Some("U2"), << <<Some("z"), CArray(c_sint, Some(0))>> >>)
S3 == CStruct(Some("S3"), << <<Some("t"), c_schar>>, <<None, U1>> >>)
S4 == CStruct(Some("S4"), << <<Some("t"), c_sshort>>, <<None, S1>>, <<Some("l"), c_slong_long>> >>)
S5 == CStruct(Some("S5"), << <<Some("u"), U0>> >>)
S0 == CStruct(None, <<>>)
A1 == CArray(S1, Some(2))

LayoutTypes ==
    {c_sint, S0, S1, S2, S3, S4, S5, U0, U1, U2, A1, CArray(c_schar, None), c_void_p}

Packs == {1, 2, 8}

Caches == [s |-> sizeof_cache, a |-> alignof_cache, o |-> offsets_cache]

NoQuery == [op |-> "none", t |-> c_void, pack |-> 0, err |-> "ok", val |-> -1,
            offsets |-> NoOffsets]

InitLayout ==
    /\ sizeof_cache = InitialCaches.s
    /\ alignof_cache = InitialCaches.a
    /\ offsets_cache = InitialCaches.o
    /\ query = NoQuery
    /\ nqueries = 0

\* one call of a layout function from outside the module
Returned(op, t, pack, r) ==
    /\ sizeof_cache' = r.L.s
    /\ alignof_cache' = r.L.a
    /\ offsets_cache' = r.L.o
    /\ query' = [op |-> op, t |-> t, pack |-> pack, err |-> r.err, val |-> r.val,
                 offsets |-> r.offsets]
    /\ nqueries' = nqueries + 1

call_sizeof ==
    /\ nqueries < MaxQueries
    /\ \E t \in LayoutTypes, pack \in Packs : Returned("sizeof", t, pack, sizeof(t, pack, Caches))
    /\ UNCHANGED <<compilerVars, jsonVars, extractionVars, cacheVars, registryVars>>

call_alignof ==
    /\ nqueries < MaxQueries
    /\ \E t \in LayoutTypes, pack \in Packs : Returned("alignof", t, pack, alignof(t, pack, Caches))
    /\ UNCHANGED <<compilerVars, jsonVars, extractionVars, cacheVars, registryVars>>

call_offsetsof ==
    /\ nqueries < MaxQueries
    /\ \E t \in LayoutTypes, pack \in Packs :
          Returned("offsetsof", t, pack, offsetsof(t, pack, Caches))
    /\ UNCHANGED <<compilerVars, jsonVars, extractionVars, cacheVars, registryVars>>

NextLayout ==
    \/ call_sizeof
    \/ call_alignof
    \/ call_offsetsof

(***************************************************************************)
(* c_type.py: the interchange encoding.  A document is a string, written   *)
(* [str |-> s], or a dict, written as the record of its keys (JSON_KEYS).  *)
(***************************************************************************)
JStr(s) == [str |-> s]
IsStr(d) == "str" \in DOMAIN d

\* CIntegral.full_name
full_name(t) == IF t.unsigned THEN "unsigned " \o t.name ELSE "signed " \o t.name

\* _special_by_name as the module's import leaves it: "void", and what the
\* __post_init__ of every special type constructed there registered
SpecialTypes ==
    {va_list, c_float, c_double, CFloatingPoint("long double")} \cup IntegralTypes

special_name(t) == IF t.k = "CIntegral" THEN full_name(t) ELSE t.name

special_by_name ==
    [n \in {"void"} \cup {special_name(t) : t \in SpecialTypes} |->
        IF n = "void" THEN c_void ELSE CHOOSE t \in SpecialTypes : special_name(t) = n]

RECURSIVE to_json(_)
to_json_decls(decls) == [i \in 1..Len(decls) |-> [n |-> decls[i][1], t |-> to_json(decls[i][2])]]

to_json(t) ==
    CASE t.k = "CVoid" -> JStr("void")
      [] t.k \in {"CSpecialType", "CFloatingPoint"} -> JStr(t.name)
      [] t.k = "CIntegral" -> JStr(full_name(t))
      [] t.k = "COpaqueStruct" -> [t |-> "os", n |-> t.name]
      [] t.k = "CStruct" -> [t |-> "s", n |-> t.name, d |-> to_json_decls(t.decls)]
      [] t.k = "COpaqueUnion" -> [t |-> "ou", n |-> t.name]
      [] t.k = "CUnion" -> [t |-> "u", n |-> t.name, d |-> to_json_decls(t.decls)]
      [] t.k = "CArray" -> [t |-> "a", b |-> to_json(t.base), v |-> t.dim]
      [] t.k = "CEnum" -> [t |-> "e", n |-> t.name, v |-> t.values]
      [] t.k = "CFunc" -> [t |-> "f", va |-> t.varargs, as |-> to_json_decls(t.args),
                           v |-> to_json(t.return_type)]
      [] t.k = "CPointer" -> [t |-> "p", b |-> to_json(t.base)]

Decoded(t) == [ok |-> TRUE, t |-> t]
NotDecoded == [ok |-> FALSE, t |-> c_void]

HasKeys(d, keys) == keys \subseteq DOMAIN d

\* from_json; NotDecoded stands for the NotImplementedError of the last case
RECURSIVE from_json(_)
from_json_decls(ds) == [i \in 1..Len(ds) |-> from_json(ds[i].t)]

decls_ok(rs) == \A i \in 1..Len(rs) : rs[i].ok

decls_of(ds, rs) == [i \in 1..Len(ds) |-> <<ds[i].n, rs[i].t>>]

from_json(d) ==
    IF IsStr(d)
    THEN IF d.str \in DOMAIN special_by_name THEN Decoded(special_by_name[d.str]) ELSE NotDecoded
    ELSE IF ~HasKeys(d, {"t"}) THEN NotDecoded
    ELSE CASE d.t = "os" /\ HasKeys(d, {"n"}) -> Decoded(COpaqueStruct(d.n))
           [] d.t = "ou" /\ HasKeys(d, {"n"}) -> Decoded(COpaqueStruct(d.n))
           [] d.t = "f" /\ HasKeys(d, {"va", "as", "v"}) ->
                LET rs == from_json_decls(d.as)
                    rt == from_json(d.v)
                IN  IF decls_ok(rs) /\ rt.ok
                    THEN Decoded(CFunc(decls_of(d.as, rs), rt.t, d.va))
                    ELSE NotDecoded
           [] d.t = "p" /\ HasKeys(d, {"b"}) ->
                LET b == from_json(d.b)
                IN  IF b.ok THEN Decoded(CPointer(b.t)) ELSE NotDecoded
           [] d.t = "s" /\ HasKeys(d, {"n", "d"}) ->
                LET rs == from_json_decls(d.d)
                IN  IF decls_ok(rs) THEN Decoded(CStruct(d.n, decls_of(d.d, rs))) ELSE NotDecoded
           [] d.t = "u" /\ HasKeys(d, {"n", "d"}) ->
                LET rs == from_json_decls(d.d)
                IN  IF decls_ok(rs) THEN Decoded(CUnion(d.n, decls_of(d.d, rs))) ELSE NotDecoded
           [] d.t = "e" /\ HasKeys(d, {"n", "v"}) -> Decoded(CEnum(d.n, d.v))
           [] d.t = "a" /\ HasKeys(d, {"b", "v"}) ->
                LET b == from_json(d.b)
                IN  IF b.ok THEN Decoded(CArray(b.t, d.v)) ELSE NotDecoded
           [] OTHER -> NotDecoded

\* the types encoded: the atoms, and the variants built over them
AtomTypes ==
    {c_void, va_list, c_schar, c_uint, c_double,
     COpaqueStruct("node"), COpaqueUnion("value"),
     CEnum(Some("color"), [red |-> 0, green |-> 1])}

TypesOver(base) ==
    base
    \cup {CPointer(b) : b \in base}
    \cup {CArray(b, dim) : b \in base, dim \in {None, Some(2)}}
    \cup {CStruct(Some("pair"), << <<Some("first"), b>>, <<None, c_uint>> >>) : b \in base}
    \cup {CUnion(None, << <<Some("u"), b>> >>) : b \in base}
    \cup {CFunc(<< <<Some("x"), b>> >>, c_void, TRUE) : b \in base}
    \cup {CFunc(<<>>, b, FALSE) : b \in base}

RECURSIVE TypesOfDepth(_)
TypesOfDepth(n) == IF n = 0 THEN AtomTypes ELSE TypesOver(TypesOfDepth(n - 1))

JsonTypes == TypesOfDepth(MaxDepth)

NoDoc == JStr("")

InitJson ==
    /\ jpc = "idle"
    /\ jtype = c_void
    /\ jdoc = NoDoc
    /\ jback = NotDecoded

\* t.to_json() of some type t
call_to_json ==
    /\ jpc = "idle"
    /\ \E t \in JsonTypes :
          /\ jtype' = t
          /\ jdoc' = to_json(t)
    /\ jpc' = "encoded"
    /\ UNCHANGED <<jback, compilerVars, layoutVars, extractionVars, cacheVars, registryVars>>

\* from_json of the document
call_from_json ==
    /\ jpc = "encoded"
    /\ jback' = from_json(jdoc)
    /\ jpc' = "decoded"
    /\ UNCHANGED <<jtype, jdoc, compilerVars, layoutVars, extractionVars, cacheVars, registryVars>>

NextJson ==
    \/ call_to_json
    \/ call_from_json

(***************************************************************************)
(* extract_headers.py: DeclarationExtraction.  The parser's nodes are      *)
(* records whose field node is the c_ast class; the header's namespaces    *)
(* are threaded through to_c_type as H = [types, structs, unions], which   *)
(* a call returns as it leaves them, also when it raises.                  *)
(***************************************************************************)
IdentifierType(names) == [node |-> "IdentifierType", names |-> names]
TypeDecl(type) == [node |-> "TypeDecl", type |-> type]
PtrDecl(type) == [node |-> "PtrDecl", type |-> type]
StructNode(name, decls) == [node |-> "Struct", name |-> name, decls |-> decls]
UnionNode(name, decls) == [node |-> "Union", name |-> name, decls |-> decls]
Decl(name, type) == [name |-> name, type |-> type]

\* c_type.get_from_names; c_void with ok = FALSE is its NotImplementedError
get_from_names(names) ==
    CASE names = <<"__builtin_va_list">> -> Decoded(va_list)
      [] names = <<"void">> -> Decoded(c_void)
      [] names = <<"float">> -> Decoded(c_float)
      [] names = <<"double">> -> Decoded(c_double)
      [] names = <<"long", "double">> -> Decoded(CFloatingPoint("long double"))
      [] names \in {<<"signed", "char">>, <<"char">>} -> Decoded(c_schar)
      [] names = <<"unsigned", "char">> -> Decoded(c_uchar)
      [] names \in {<<"signed", "short">>, <<"short">>, <<"signed", "short", "int">>,
                    <<"short", "int">>} -> Decoded(c_sshort)
      [] names \in {<<"unsigned", "short">>, <<"unsigned", "short", "int">>} -> Decoded(c_ushort)
      [] names \in {<<"signed", "int">>, <<"int">>} -> Decoded(c_sint)
      [] names \in {<<"unsigned", "int">>, <<"unsigned">>} -> Decoded(c_uint)
      [] names \in {<<"signed", "long">>, <<"long">>, <<"signed", "long", "int">>,
                    <<"long", "int">>} -> Decoded(CIntegral("long", FALSE))
      [] names \in {<<"unsigned", "long">>, <<"unsigned", "long", "int">>} ->
            Decoded(CIntegral("long", TRUE))
      [] names \in {<<"long", "long">>, <<"signed", "long", "long">>, <<"long", "long", "int">>,
                    <<"signed", "long", "long", "int">>} -> Decoded(c_slong_long)
      [] names \in {<<"unsigned", "long", "long">>, <<"unsigned", "long", "long", "int">>} ->
            Decoded(c_ulong_long)
      [] OTHER -> NotDecoded

Translated(H, err, t) == [H |-> H, err |-> err, t |-> t]

\* the Struct / Union case without a field list: the placeholder is stored
\* only under a name the namespace does not hold yet
store_opaque(table, name, s) ==
    IF name \notin DOMAIN table THEN (name :> s) @@ table ELSE table

\* a store in which the latest declaration with a field list always wins
store_complete_last_wins(table, name, s, opaque) ==
    [table |-> (name :> s) @@ table, ok |-> TRUE]

\* the Struct / Union case with a field list: the namespace after it, and
\* whether its assertion held; opaque is the placeholder's class
store_complete(table, name, s, opaque) ==
    IF name \notin DOMAIN table THEN [table |-> (name :> s) @@ table, ok |-> TRUE]
    ELSE IF table[name].k = opaque THEN [table |-> (name :> s) @@ table, ok |-> TRUE]
    ELSE [table |-> table, ok |-> table[name] = s]

RECURSIVE to_c_type(_, _)
RECURSIVE to_c_type_decls(_, _, _)

\* the field types of a field list from field i on; acc = [H, err, fields]
to_c_type_decls(decls, i, acc) ==
    IF i > Len(decls) \/ acc.err # "ok" THEN acc
    ELSE LET r == to_c_type(decls[i].type, acc.H)
         IN  to_c_type_decls(decls, i + 1,
                 [H |-> r.H, err |-> r.err,
                  fields |-> Append(acc.fields, <<decls[i].name, r.t>>)])

to_c_type(node, H) ==
    CASE node.node = "IdentifierType" ->
            IF Len(node.names) = 1 /\ node.names[1] \in DOMAIN H.types
            THEN Translated(H, "ok", H.types[node.names[1]])
            ELSE LET r == get_from_names(node.names)
                 IN  Translated(H, IF r.ok THEN "ok" ELSE "NotImplementedError", r.t)
      [] node.node = "TypeDecl" -> to_c_type(node.type, H)
      [] node.node = "PtrDecl" ->
            LET r == to_c_type(node.type, H)
            IN  Translated(r.H, r.err, CPointer(r.t))
      [] node.node = "Struct" /\ node.name # None /\ node.decls = None ->
            LET s == COpaqueStruct(node.name[1])
            IN  Translated([H EXCEPT !.structs = store_opaque(@, node.name[1], s)], "ok", s)
      [] node.node = "Struct" /\ node.decls # None ->
            LET r == to_c_type_decls(node.decls[1], 1, [H |-> H, err |-> "ok", fields |-> <<>>])
                s == CStruct(node.name, r.fields)
                st == store_complete(r.H.structs, node.name[1], s, "COpaqueStruct")
            IN  IF r.err # "ok" THEN Translated(r.H, r.err, c_void)
                ELSE IF node.name = None THEN Translated(r.H, "ok", s)
                ELSE Translated([r.H EXCEPT !.structs = st.table],
                                IF st.ok THEN "ok" ELSE "AssertionError", s)
      [] node.node = "Union" /\ node.name # None /\ node.decls = None ->
            LET s == COpaqueUnion(node.name[1])
            IN  Translated([H EXCEPT !.unions = store_opaque(@, node.name[1], s)], "ok", s)
      [] node.node = "Union" /\ node.decls # None ->
            LET r == to_c_type_decls(node.decls[1], 1, [H |-> H, err |-> "ok", fields |-> <<>>])
                s == CUnion(node.name, r.fields)
                st == store_complete(r.H.unions, node.name[1], s, "COpaqueUnion")
            IN  IF r.err # "ok" THEN Translated(r.H, r.err, c_void)
                ELSE IF node.name = None THEN Translated(r.H, "ok", s)
                ELSE Translated([r.H EXCEPT !.unions = st.table],
                                IF st.ok THEN "ok" ELSE "AssertionError", s)
      [] OTHER -> Translated(H, "NotImplementedError", c_void)

\* the declarations of the header: field lists, and the struct and union
\* nodes that carry them
IntField == << Decl(Some("x"), TypeDecl(IdentifierType(<<"int">>))) >>

LinkFields ==
    << Decl(Some("x"), TypeDecl(IdentifierType(<<"char">>))),
       Decl(Some("next"), PtrDecl(TypeDecl(StructNode(Some("A"), None)))) >>

NestFields ==
    << Decl(Some("in"), TypeDecl(StructNode(Some("A"), Some(IntField)))),
       Decl(Some("u"), PtrDecl(TypeDecl(UnionNode(Some("A"), None)))) >>

AggregateNodes ==
    {StructNode(Some("A"), None), StructNode(Some("A"), Some(IntField)),
     StructNode(Some("A"), Some(LinkFields)), StructNode(Some("B"), Some(NestFields)),
     StructNode(None, Some(IntField)),
     UnionNode(Some("A"), None), UnionNode(Some("A"), Some(IntField)),
     UnionNode(Some("A"), Some(LinkFields)), UnionNode(Some("B"), Some(NestFields)),
     UnionNode(None, Some(IntField))}

TypeNodes == AggregateNodes \cup {TypeDecl(IdentifierType(<<"T">>))}

Header == [types |-> types, structs |-> structs, unions |-> unions]

InitExtraction ==
    /\ xpc = "visiting"
    /\ types = <<>>
    /\ variables = <<>>
    /\ structs = <<>>
    /\ unions = <<>>
    /\ seen = <<>>

\* what a visit that called to_c_type leaves of the namespaces it threads
Visited(node, r) ==
    /\ structs' = r.H.structs
    /\ unions' = r.H.unions
    /\ seen' = Append(seen, node)

\* DeclarationExtraction.visit_Decl of a declaration that is no function
visit_Decl ==
    /\ xpc = "visiting"
    /\ Len(seen) < MaxDecls
    /\ \E name \in {None, Some("v")}, node \in TypeNodes :
          LET r == to_c_type(node, Header)
          IN  /\ Visited(node, r)
              /\ xpc' = IF r.err = "ok" THEN "visiting" ELSE "failed"
              /\ variables' = IF r.err = "ok" /\ name # None
                              THEN (name[1] :> r.t) @@ variables ELSE variables
    /\ UNCHANGED <<types, compilerVars, layoutVars, jsonVars, cacheVars, registryVars>>

\* DeclarationExtraction.visit_Typedef
visit_Typedef ==
    /\ xpc = "visiting"
    /\ Len(seen) < MaxDecls
    /\ \E name \in {"T"}, node \in TypeNodes :
          LET r == to_c_type(node, Header)
          IN  /\ Visited(node, r)
              /\ xpc' = IF r.err = "ok" THEN "visiting" ELSE "failed"
              /\ types' = IF r.err = "ok" THEN (name :> r.t) @@ types ELSE types
    /\ UNCHANGED <<variables, compilerVars, layoutVars, jsonVars, cacheVars, registryVars>>

NextExtraction ==
    \/ visit_Decl
    \/ visit_Typedef

(***************************************************************************)
(* extract_headers.py: FullHeader.  A store is a record of its fields;     *)
(* frozen is the set of its namespaces that are frozendicts.               *)
(***************************************************************************)
CMacro(name, args, replacement) == [name |-> name, args |-> args, replacement |-> replacement]

Namespaces ==
    {"macros", "functions", "variables", "types", "structs", "unions", "enums", "enum_values"}

FullHeader(name) ==
    [name |-> name, macros |-> <<>>, functions |-> <<>>, variables |-> <<>>, types |-> <<>>,
     structs |-> <<>>, unions |-> <<>>, enums |-> <<>>, enum_values |-> <<>>, frozen |-> {}]

\* FullHeader.freeze: every field that is a dict becomes a frozendict
freeze(h) == [h EXCEPT !.frozen = Namespaces]

to_json_types(ns) == [n \in DOMAIN ns |-> to_json(ns[n])]

\* FullHeader.to_json: enum_values is left out
FullHeader_to_json(h) ==
    [name |-> h.name,
     macros |-> [n \in DOMAIN h.macros |-> [as |-> h.macros[n].args, v |-> h.macros[n].replacement]],
     functions |-> to_json_types(h.functions),
     variables |-> to_json_types(h.variables),
     types |-> to_json_types(h.types),
     structs |-> to_json_types(h.structs),
     unions |-> to_json_types(h.unions),
     enums |-> to_json_types(h.enums)]

from_json_types(ns) == [n \in DOMAIN ns |-> from_json(ns[n])]

types_ok(rs) == \A n \in DOMAIN rs : rs[n].ok

types_of(rs) == [n \in DOMAIN rs |-> rs[n].t]

\* the index FullHeader.from_json rebuilds: enumerator -> (value, enum name)
enum_values_of(enums) ==
    LET named == {<<vn, n>> : n \in DOMAIN enums, vn \in UNION {DOMAIN enums[m].values : m \in DOMAIN enums}}
        owned == {e \in named : e[1] \in DOMAIN enums[e[2]].values}
    IN  [vn \in {e[1] : e \in owned} |->
            LET n == CHOOSE n \in DOMAIN enums : <<vn, n>> \in owned
            IN  <<enums[n].values[vn], n>>]

\* FullHeader.from_json: the namespaces are plain dicts, none is frozen
FullHeader_from_json(data) ==
    LET fs == from_json_types(data.functions)
        vs == from_json_types(data.variables)
        ts == from_json_types(data.types)
        ss == from_json_types(data.structs)
        us == from_json_types(data.unions)
        es == from_json_types(data.enums)
        ok == types_ok(fs) /\ types_ok(vs) /\ types_ok(ts) /\ types_ok(ss) /\ types_ok(us)
              /\ types_ok(es)
    IN  IF ~ok THEN [err |-> "NotImplementedError", store |-> FullHeader(data.name)]
        ELSE IF \E n \in DOMAIN es : es[n].t.k # "CEnum"
        THEN [err |-> "AssertionError", store |-> FullHeader(data.name)]
        ELSE [err |-> "ok",
              store |-> [name |-> data.name,
                         macros |-> [n \in DOMAIN data.macros |->
                                        CMacro(n, data.macros[n].as, data.macros[n].v)],
                         functions |-> types_of(fs), variables |-> types_of(vs),
                         types |-> types_of(ts), structs |-> types_of(ss),
                         unions |-> types_of(us), enums |-> types_of(es),
                         enum_values |-> enum_values_of(types_of(es)),
                         frozen |-> {}]]

(***************************************************************************)
(* The headers of the environment: what the preprocessor prints for        *)
(* -dM and what the parser makes of the expanded text.                     *)
(***************************************************************************)
HeaderNames == {"a.h", "sys/u.h", "bad.h", "x.hpp"}

Typedef(name, type) == [visit |-> "Typedef", name |-> name, type |-> type]
VarDecl(name, type) == [visit |-> "Decl", name |-> name, type |-> type]

\* the #define lines of a header, as the loop of extract_header reads them
header_macros(name) ==
    IF name = "a.h" THEN [EOF |-> CMacro("EOF", None, "(-1)")] ELSE <<>>

\* c_parser.parse(full_code).ext
header_ast(name) ==
    CASE name = "a.h" ->
            << Typedef("T", TypeDecl(StructNode(Some("A"), Some(IntField)))),
               VarDecl(Some("v"), PtrDecl(TypeDecl(StructNode(Some("A"), None)))) >>
      [] name = "sys/u.h" ->
            << VarDecl(Some("u"), PtrDecl(TypeDecl(UnionNode(Some("A"), None)))) >>
      [] name = "bad.h" ->
            << VarDecl(None, StructNode(Some("A"), Some(IntField))),
               VarDecl(None, StructNode(Some("A"), Some(LinkFields))) >>
      [] name = "x.hpp" -> << VarDecl(Some("n"), TypeDecl(IdentifierType(<<"int">>))) >>

\* DeclarationExtraction.visit_FileAST from declaration i on: the store and
\* the exception that ended the visit, if any
RECURSIVE visit_FileAST(_, _, _)
visit_FileAST(ast, i, h) ==
    IF i > Len(ast) THEN [err |-> "ok", store |-> h]
    ELSE LET r == to_c_type(ast[i].type,
                      [types |-> h.types, structs |-> h.structs, unions |-> h.unions])
             h1 == [h EXCEPT !.structs = r.H.structs, !.unions = r.H.unions]
             h2 == IF ast[i].visit = "Typedef"
                   THEN [h1 EXCEPT !.types = (ast[i].name :> r.t) @@ @]
                   ELSE IF ast[i].name # None
                   THEN [h1 EXCEPT !.variables = (ast[i].name[1] :> r.t) @@ @]
                   ELSE h1
         IN  IF r.err # "ok" THEN [err |-> r.err, store |-> h1]
             ELSE visit_FileAST(ast, i + 1, h2)

\* extract_header from the preprocessor runs to headers.freeze()
run_tools(name) ==
    LET r == visit_FileAST(header_ast(name), 1,
                 [FullHeader(name) EXCEPT !.macros = header_macros(name)])
    IN  IF r.err = "ok" THEN [err |-> "ok", store |-> freeze(r.store)] ELSE r

(***************************************************************************)
(* extract_headers.py: extract_header and invalidate_cache.  A process     *)
(* runs one call at a time; the steps of a call are its accesses to the    *)
(* cache directory, between which another process may run.  A cache file   *)
(* is the sequence of the chunks written to it; json.dump writes Chunks    *)
(* chunks, each at the writer's own file position.                         *)
(***************************************************************************)
Procs == {1, 2}

Chunks == 2

Chunk(doc, part) == [doc |-> doc, part |-> part]
Hole == [part |-> 0]

\* hashlib.md5(name).hexdigest(), shortened
md5(name) ==
    CASE name = "a.h" -> "6d8d"
      [] name = "sys/u.h" -> "01c7"
      [] name = "bad.h" -> "f3a2"
      [] name = "x.hpp" -> "9b1e"

\* re.sub('[^A-Za-z0-9.]+', '-', name)
safe_name(name) == IF name = "sys/u.h" THEN "sys-u.h" ELSE name

\* str.endswith
endswith(str, suffix) ==
    /\ Len(str) >= Len(suffix)
    /\ SubSeq(str, Len(str) - Len(suffix) + 1, Len(str)) = suffix

\* a glob that matches no file
glob_nothing(dir) == {}

\* CACHE_DIR.glob("*.h.json")
glob(dir) == {f \in DOMAIN dir : endswith(f, ".h.json")}

\* _cache_name, after its assertion
cache_name(name) == md5(name) \o "-" \o safe_name(name) \o ".json"

\* a file after a write of chunk c at position i
WriteAt(file, i, c) ==
    [j \in 1..Max(Len(file), i) |-> IF j = i THEN c ELSE IF j <= Len(file) THEN file[j] ELSE Hole]

\* json.load: the document of a file that holds all of its chunks
WholeFile(file) ==
    /\ Len(file) = Chunks
    /\ \A j \in 1..Chunks : file[j].part = j
    /\ \A j \in 1..Chunks : file[j].doc = file[1].doc

FileOf(name) ==
    IF cache_name(name) \in DOMAIN cache_dir THEN Some(cache_dir[cache_name(name)]) ELSE None

NoCall ==
    [pc |-> "idle", header |-> "", no_cache |-> FALSE, err |-> "ok", store |-> FullHeader(""),
     pos |-> 0, ran_tools |-> FALSE, read_cache |-> FALSE, wrote_cache |-> FALSE,
     warm |-> FALSE, entry |-> None, late |-> "none"]

Finished(p) == xh[p].pc \in {"idle", "returned", "failed"}

Raised(call, err) == [call EXCEPT !.pc = "failed", !.err = err]

InitCache ==
    /\ cache_dir = <<>>
    /\ xh = [p \in Procs |-> NoCall]
    /\ cached = {}
    /\ ncalls = 0

\* extract_header(header_name, no_cache) entered
extract_header(p) ==
    /\ Finished(p)
    /\ ncalls < MaxCalls
    /\ \E name \in HeaderNames, no_cache \in BOOLEAN :
          LET call == [NoCall EXCEPT !.header = name, !.no_cache = no_cache,
                                     !.warm = name \in cached, !.entry = FileOf(name)]
          IN  xh' = [xh EXCEPT ![p] =
                        IF no_cache THEN [call EXCEPT !.pc = "tools"]
                        ELSE IF ~endswith(name, ".h") THEN Raised(call, "AssertionError")
                        ELSE [call EXCEPT !.pc = "exists"]]
    /\ ncalls' = ncalls + 1
    /\ UNCHANGED <<cache_dir, cached, compilerVars, layoutVars, jsonVars, extractionVars, registryVars>>

\* (CACHE_DIR / cache_name).exists()
cache_exists(p) ==
    /\ xh[p].pc = "exists"
    /\ xh' = [xh EXCEPT ![p].pc =
                 IF cache_name(xh[p].header) \in DOMAIN cache_dir THEN "load" ELSE "tools"]
    /\ UNCHANGED <<cache_dir, cached, ncalls, compilerVars, layoutVars, jsonVars, extractionVars, registryVars>>

\* open("r"), json.load and FullHeader.from_json
cache_load(p) ==
    /\ xh[p].pc = "load"
    /\ LET f == cache_name(xh[p].header)
           call == [xh[p] EXCEPT !.read_cache = TRUE]
       IN  IF f \notin DOMAIN cache_dir
           THEN xh' = [xh EXCEPT ![p] = Raised(call, "FileNotFoundError")] /\ UNCHANGED cached
           ELSE IF ~WholeFile(cache_dir[f])
           THEN xh' = [xh EXCEPT ![p] = Raised(call, "JSONDecodeError")] /\ UNCHANGED cached
           ELSE LET r == FullHeader_from_json(cache_dir[f][1].doc)
                IN  IF r.err # "ok"
                    THEN xh' = [xh EXCEPT ![p] = Raised(call, r.err)] /\ UNCHANGED cached
                    ELSE /\ xh' = [xh EXCEPT ![p] = [call EXCEPT !.pc = "returned",
                                                                !.store = r.store]]
                         /\ cached' = cached \cup {xh[p].header}
    /\ UNCHANGED <<cache_dir, ncalls, compilerVars, layoutVars, jsonVars, extractionVars, registryVars>>

\* the preprocessor and parser runs, the visit and headers.freeze()
invoke_tools(p) ==
    /\ xh[p].pc = "tools"
    /\ LET r == run_tools(xh[p].header)
           call == [xh[p] EXCEPT !.ran_tools = TRUE]
       IN  xh' = [xh EXCEPT ![p] =
                     IF r.err # "ok" THEN Raised(call, r.err)
                     ELSE [call EXCEPT !.store = r.store,
                                       !.pc = IF xh[p].no_cache THEN "returned" ELSE "open"]]
    /\ UNCHANGED <<cache_dir, cached, ncalls, compilerVars, layoutVars, jsonVars, extractionVars, registryVars>>

\* (CACHE_DIR / cache_name).open("w"): the file is created or truncated
cache_open(p) ==
    /\ xh[p].pc = "open"
    /\ cache_dir' = (cache_name(xh[p].header) :> <<>>) @@ cache_dir
    /\ xh' = [xh EXCEPT ![p].pc = "dump", ![p].wrote_cache = TRUE]
    /\ UNCHANGED <<cached, ncalls, compilerVars, layoutVars, jsonVars, extractionVars, registryVars>>

\* json.dump(data, f): the next chunk; after the last one the call returns
cache_dump(p) ==
    /\ xh[p].pc = "dump"
    /\ LET f == cache_name(xh[p].header)
           i == xh[p].pos + 1
           file == IF f \in DOMAIN cache_dir THEN cache_dir[f] ELSE <<>>
       IN  /\ cache_dir' =
                 (f :> WriteAt(file, i, Chunk(FullHeader_to_json(xh[p].store), i))) @@ cache_dir
           /\ xh' = [xh EXCEPT ![p].pos = i,
                               ![p].pc = IF i = Chunks THEN "returned" ELSE "dump"]
           /\ cached' = IF i = Chunks THEN cached \cup {xh[p].header} ELSE cached
    /\ UNCHANGED <<ncalls, compilerVars, layoutVars, jsonVars, extractionVars, registryVars>>

\* invalidate_cache, called while no extraction of the caller is running
invalidate_cache ==
    /\ \A p \in Procs : Finished(p)
    /\ cache_dir' = [f \in DOMAIN cache_dir \ glob(cache_dir) |-> cache_dir[f]]
    /\ cached' = {}
    /\ UNCHANGED <<xh, ncalls, compilerVars, layoutVars, jsonVars, extractionVars, registryVars>>

\* a consumer of the returned store assigns store.<ns>["late"] = c_void
store_setitem(p) ==
    /\ xh[p].pc = "returned"
    /\ xh[p].late = "none"
    /\ \E ns \in Namespaces :
          xh' = [xh EXCEPT ![p] =
                    IF ns \in xh[p].store.frozen THEN [@ EXCEPT !.late = "TypeError"]
                    ELSE [@ EXCEPT !.late = "stored",
                                   !.store[ns] = ("late" :> c_void) @@ @]]
    /\ UNCHANGED <<cache_dir, cached, ncalls, compilerVars, layoutVars, jsonVars, extractionVars, registryVars>>

Step(p) ==
    \/ extract_header(p)
    \/ cache_exists(p)
    \/ cache_load(p)
    \/ invoke_tools(p)
    \/ cache_open(p)
    \/ cache_dump(p)
    \/ store_setitem(p)

\* one process extracting headers and invalidating the cache
NextCache ==
    \/ Step(1)
    \/ invalidate_cache

\* two processes extracting headers
NextRace == \E p \in Procs : Step(p)

(***************************************************************************)
(* vm_bytecode.py: the instruction set.                                    *)
(***************************************************************************)
Instruction(name, id, argc) == [name |-> name, id |-> id, argc |-> argc]

LOAD_CONSTANT == Instruction("LOAD_CONSTANT", 1, 1)
DISCARD == Instruction("DISCARD", 2, 1)
START_CALL == Instruction("START_CALL", 3, 2)
ARGUMENT == Instruction("ARGUMENT", 4, 2)
CALL_FUNCTION == Instruction("CALL_FUNCTION", 5, 2)
CALL_VOID_FUNCTION == Instruction("CALL_VOID_FUNCTION", 6, 1)
CALL_VAR == Instruction("CALL_VAR", 7, 3)
CALL_VOID_VAR == Instruction("CALL_VOID_VAR", 8, 2)

\* Instruction.__call__: the assertions that guard the construction.
InstructionCallOk(ins, args) ==
    /\ 0 <= ins.id /\ ins.id <= 255
    /\ \A i \in 1..Len(args) : 0 <= args[i] /\ args[i] <= 255
    /\ Len(args) = ins.argc

AppliedInstruction(ins, args) == [ins |-> ins, args |-> args]

StackState(ts, instructions, max_size) ==
    [types |-> ts, instructions |-> instructions, max_size |-> max_size]

Bytecode(cs, fs, instructions, max_size) ==
    [constants |-> cs, function_decls |-> fs, instructions |-> instructions,
     max_size |-> max_size]

NoBytecode == [constants |-> <<>>, function_decls |-> <<>>, instructions |-> <<>>,
               max_size |-> -1]

(***************************************************************************)
(* c_headers.py, c_stdlib.py: declarations and the registry of headers.    *)
(***************************************************************************)
CDeclFunction(name, header, return_type, arguments, varargs) ==
    [name |-> name, header |-> header, return_type |-> return_type,
     arguments |-> arguments, varargs |-> varargs]

\* c_stdlib.StdIO
puts == CDeclFunction("puts", "stdio.h", c_int, << <<Some("s"), c_char_p>> >>, FALSE)
printf == CDeclFunction("printf", "stdio.h", c_int, << <<Some("format"), c_char_p>> >>, TRUE)
\* further declarations a header finder registers through the same decorator:
\* the two void forms and a parameter of integral type
perror == CDeclFunction("perror", "stdio.h", c_void, << <<Some("s"), c_char_p>> >>, FALSE)
putchar == CDeclFunction("putchar", "stdio.h", c_int, << <<Some("c"), c_int>> >>, FALSE)
warn == CDeclFunction("warn", "err.h", c_void, << <<Some("fmt"), c_char_p>> >>, TRUE)

\* StdlibHeaderFinder.known_headers: header name -> its _function_cache
known_headers ==
    [h \in {"stdio.h", "err.h"} |->
        IF h = "stdio.h"
        THEN [n \in {"puts", "printf", "perror", "putchar"} |->
                CASE n = "puts" -> puts
                  [] n = "printf" -> printf
                  [] n = "perror" -> perror
                  [] n = "putchar" -> putchar]
        ELSE [n \in {"warn"} |-> warn]]

\* the type tags of the calling convention (the table compiler.py imports)
BASE_TYPE_IDS ==
    [t \in {c_void, c_void_p, c_schar, c_uchar, c_sint, c_uint} |->
        CASE t = c_void -> 0
          [] t = c_sint -> 1
          [] t = c_uint -> 2
          [] t = c_schar -> 3
          [] t = c_uchar -> 4
          [] t = c_void_p -> 14]

(***************************************************************************)
(* c_headers.py: CHeader.get_proc on the headers of the registry.          *)
(***************************************************************************)
\* repr of a str
repr(str) == "'" \o str \o "'"

\* an error that names the symbol only
ValueError_without_header(name, header) ==
    [err |-> "ValueError", msg |-> "Can't find definition of Function " \o repr(name)]

\* CHeader._get_proc: the ValueError it raises
ValueError_not_found(name, header) ==
    [err |-> "ValueError",
     msg |-> "Can't find definition of Function " \o repr(name) \o " in " \o repr(header)]

ProcNames == {"puts", "printf", "perror", "putchar", "warn", "fputs"}

NoProc == [header |-> "", name |-> "", err |-> "none", msg |-> "", decl |-> None]

InitRegistry ==
    /\ function_cache = known_headers
    /\ proc = NoProc
    /\ first_proc = <<>>

\* header.get_proc(name) on a header of the registry
get_proc ==
    /\ \E header \in DOMAIN function_cache, name \in ProcNames :
          IF name \notin DOMAIN function_cache[header]
          THEN LET e == ValueError_not_found(name, header)
               IN  /\ proc' = [header |-> header, name |-> name, err |-> e.err, msg |-> e.msg,
                               decl |-> None]
                   /\ UNCHANGED <<function_cache, first_proc>>
          ELSE /\ proc' = [header |-> header, name |-> name, err |-> "ok", msg |-> "",
                           decl |-> Some(function_cache[header][name])]
               /\ first_proc' = IF <<header, name>> \in DOMAIN first_proc THEN first_proc
                                ELSE (<<header, name>> :> function_cache[header][name])
                                     @@ first_proc
               /\ UNCHANGED function_cache
    /\ UNCHANGED <<compilerVars, layoutVars, jsonVars, extractionVars, cacheVars>>

NextRegistry == get_proc

(***************************************************************************)
(* compiler.py: the Compiler.                                              *)
(***************************************************************************)
NoError == [kind |-> "none", pos |-> -1, name |-> "", nargs |-> -1]
Raise(kind, pos, name, nargs) == [kind |-> kind, pos |-> pos, name |-> name, nargs |-> nargs]

\* position of key x in a dict's insertion order, 0-based
IndexOf(seq, x) == (CHOOSE i \in 1..Len(seq) : seq[i] = x) - 1
Contains(seq, x) == \E i \in 1..Len(seq) : seq[i] = x

\* a table that takes a new entry for every use of a key
Interned_every_use(table, key) == Append(table, key)

\* Compiler._get_constant / Compiler._get_function: the table after the lookup
Interned(table, key) == IF Contains(table, key) THEN table ELSE Append(table, key)

get_constant(table, value) == IndexOf(Interned(table, value), value)

get_function(table, decl) == IndexOf(Interned(table, decl), decl)

\* Compiler._get_type_id; -1 stands for the KeyError of a type without a tag
get_type_id(t) ==
    IF t.k = "CPointer" THEN BASE_TYPE_IDS[c_void_p]
    ELSE IF t \in DOMAIN BASE_TYPE_IDS THEN BASE_TYPE_IDS[t] ELSE -1

\* eval(tok) of a string token: the literal's runtime value
Tokens == {"\"%s\\n\"", "\"Hello World\"", "'Hello World'"}

\* a literal taken as it is spelled, quotes and escapes included
eval_as_spelled(tok) == tok

eval(tok) ==
    CASE tok = "\"%s\\n\"" -> "%s\n"
      [] tok = "\"Hello World\"" -> "Hello World"
      [] tok = "'Hello World'" -> "Hello World"

\* syntax trees (the parser's output)
StringTree(tok) == [op |-> "string", tok |-> tok]
CallTree(name, args) == [op |-> "call", name |-> name, args |-> args]

\* an argument check that lets any trailing argument pass
check_argument_without_arity(decl, i, t) ==
    IF i < Len(decl.arguments) /\ t # decl.arguments[i + 1][2] THEN "arg_type" ELSE "ok"

\* Compiler.call, the argument check of position i (0-based) with operand type t
check_argument(decl, i, t) ==
    IF i < Len(decl.arguments)
    THEN IF t = decl.arguments[i + 1][2] THEN "ok" ELSE "arg_type"
    ELSE IF decl.varargs THEN "ok" ELSE "too_many"

\* a closing instruction that carries the declared argument count where the
\* number of arguments passed belongs
closing_call_declared_count(decl, nargs) ==
    CASE decl.varargs /\ decl.return_type = c_void ->
            [st |-> <<>>, ins |-> CALL_VOID_VAR, args |-> <<Len(decl.arguments)>>]
      [] ~decl.varargs /\ decl.return_type = c_void ->
            [st |-> <<>>, ins |-> CALL_VOID_FUNCTION, args |-> <<Len(decl.arguments)>>]
      [] decl.varargs /\ decl.return_type # c_void ->
            [st |-> <<decl.return_type>>, ins |-> CALL_VAR,
             args |-> <<Len(decl.arguments), Len(decl.arguments),
                        get_type_id(decl.return_type)>>]
      [] ~decl.varargs /\ decl.return_type # c_void ->
            [st |-> <<decl.return_type>>, ins |-> CALL_VOID_VAR,
             args |-> <<Len(decl.arguments), Len(decl.arguments)>>]

\* Compiler.call, the match on (varargs, return_type): the operand types left
\* on the stack and the closing instruction with its operands
closing_call(decl, nargs) ==
    CASE decl.varargs /\ decl.return_type = c_void ->
            [st |-> <<>>, ins |-> CALL_VOID_VAR, args |-> <<nargs>>]
      [] ~decl.varargs /\ decl.return_type = c_void ->
            [st |-> <<>>, ins |-> CALL_VOID_FUNCTION, args |-> <<nargs>>]
      [] decl.varargs /\ decl.return_type # c_void ->
            [st |-> <<decl.return_type>>, ins |-> CALL_VAR,
             args |-> <<nargs, Len(decl.arguments), get_type_id(decl.return_type)>>]
      [] ~decl.varargs /\ decl.return_type # c_void ->
            [st |-> <<decl.return_type>>, ins |-> CALL_VOID_VAR,
             args |-> <<nargs, Len(decl.arguments)>>]

\* Compiler.call, the loop over the arguments, from position i (1-based here).
\* acc carries instructions, stack_size, max_stack_size and the first failure.
RECURSIVE call_arguments(_, _, _, _)
call_arguments(decl, args, i, acc) ==
    IF i > Len(args) \/ acc.err # "ok" THEN acc
    ELSE LET a == args[i]
             p == i - 1
         IN  IF Len(a.types) # 1
             THEN [acc EXCEPT !.err = "operand_count", !.pos = p]
             ELSE LET t == a.types[1]
                      size1 == acc.stack_size + a.max_size
                      max1 == Max(acc.max_stack_size, size1)
                      chk == check_argument(decl, p, t)
                      tag == get_type_id(t)
                      size2 == size1 - a.max_size + 1
                      max2 == Max(max1, size2)
                  IN  IF chk # "ok"
                      THEN [acc EXCEPT !.err = chk, !.pos = p]
                      ELSE IF tag = -1
                      THEN [acc EXCEPT !.err = "KeyError", !.pos = p]
                      ELSE IF ~InstructionCallOk(ARGUMENT, <<p, tag>>)
                      THEN [acc EXCEPT !.err = "instruction", !.pos = p]
                      ELSE call_arguments(decl, args, i + 1,
                              [acc EXCEPT
                                 !.instructions = (@ \o a.instructions)
                                     \o <<AppliedInstruction(ARGUMENT, <<p, tag>>)>>,
                                 !.stack_size = size2,
                                 !.max_stack_size = max2])

\* Compiler.call on an already resolved declaration: args are the StackStates
\* of the argument expressions, fidx the callee's index in the function table
call_decl(decl, args, fidx) ==
    IF ~InstructionCallOk(START_CALL, <<fidx, Len(args)>>)
    THEN [err |-> "instruction", pos |-> -1, st |-> StackState(<<>>, <<>>, 0)]
    ELSE LET acc == call_arguments(decl, args, 1,
                       [err |-> "ok", pos |-> -1,
                        instructions |-> <<AppliedInstruction(START_CALL, <<fidx, Len(args)>>)>>,
                        stack_size |-> 1, max_stack_size |-> 1])
             c == closing_call(decl, Len(args))
         IN  IF acc.err # "ok"
             THEN [err |-> acc.err, pos |-> acc.pos, st |-> StackState(<<>>, <<>>, 0)]
             ELSE IF c.ins = CALL_VAR /\ get_type_id(decl.return_type) = -1
             THEN [err |-> "KeyError", pos |-> Len(args), st |-> StackState(<<>>, <<>>, 0)]
             ELSE IF ~InstructionCallOk(c.ins, c.args)
             THEN [err |-> "closing_instruction", pos |-> Len(args),
                   st |-> StackState(<<>>, <<>>, 0)]
             ELSE [err |-> "ok", pos |-> -1,
                   st |-> StackState(c.st,
                             Append(acc.instructions, AppliedInstruction(c.ins, c.args)),
                             acc.max_stack_size)]

RECURSIVE TreeSize(_)
TreeSize(tree) ==
    IF tree.op = "string" THEN 1
    ELSE LET RECURSIVE sum(_)
             sum(i) == IF i = 0 THEN 0 ELSE TreeSize(tree.args[i]) + sum(i - 1)
         IN  1 + sum(Len(tree.args))

RECURSIVE NodeCount(_)
NodeCount(entries) ==
    IF entries = <<>> THEN 0
    ELSE TreeSize(Head(entries).tree) + NodeCount(Tail(entries))

Nodes == NodeCount(statements) + NodeCount(pending)

\* the lists of names one cimport_list node may carry, per header
ImportLists ==
    [header : {"stdio.h"},
     names : {<<"printf">>, <<"puts", "printf">>, <<"puts", "printf", "perror", "putchar">>}]
    \cup [header : {"err.h"}, names : {<<"warn">>}]

InitCompiler ==
    /\ pc = "imports"
    /\ definitions = <<>>
    /\ constants = <<>>
    /\ functions = <<>>
    /\ pending = <<>>
    /\ statements = <<>>
    /\ bytecode = NoBytecode
    /\ error = NoError

\* Compiler.cimport_list: bind every listed name to header.get_proc(name)
cimport_list ==
    /\ pc = "imports"
    /\ \E imp \in ImportLists :
          LET header == known_headers[imp.header]
              names == {imp.names[i] : i \in 1..Len(imp.names)}
          IN  definitions' =
                  [n \in DOMAIN definitions \cup names |->
                      IF n \in names THEN header[n] ELSE definitions[n]]
    /\ UNCHANGED <<pc, constants, functions, pending, statements, bytecode, error>>
    /\ UNCHANGED <<layoutVars, jsonVars, extractionVars, cacheVars, registryVars>>

\* Compiler.string: intern the literal's value, push one pointer-to-char operand
string ==
    /\ pc \in {"imports", "module"}
    /\ Nodes < MaxNodes
    /\ \E tok \in Tokens :
          LET s == eval(tok)
              i == get_constant(constants, s)
          IN  /\ constants' = Interned(constants, s)
              /\ IF InstructionCallOk(LOAD_CONSTANT, <<i>>)
                 THEN /\ pending' = Append(pending,
                            [tree |-> StringTree(tok),
                             st |-> StackState(<<c_char_p>>,
                                       <<AppliedInstruction(LOAD_CONSTANT, <<i>>)>>, 1)])
                      /\ pc' = "module"
                      /\ error' = error
                 ELSE /\ pending' = pending
                      /\ pc' = "failed"
                      /\ error' = Raise("instruction", -1, tok, 0)
    /\ UNCHANGED <<definitions, functions, statements, bytecode>>
    /\ UNCHANGED <<layoutVars, jsonVars, extractionVars, cacheVars, registryVars>>

\* Compiler.call: the children (the last n pending results) are the arguments
call ==
    /\ pc \in {"imports", "module"}
    /\ Nodes < MaxNodes
    /\ \E name \in {"puts", "printf", "perror", "putchar", "warn"},
          n \in 0..Min(MaxArgs, Len(pending)) :
          LET first == Len(pending) - n
              children == SubSeq(pending, first + 1, Len(pending))
              args == [i \in 1..n |-> children[i].st]
              tree == CallTree(name, [i \in 1..n |-> children[i].tree])
          IN  IF name \notin DOMAIN definitions
              THEN /\ pc' = "failed"
                   /\ error' = Raise("KeyError", -1, name, n)
                   /\ UNCHANGED <<functions, pending>>
              ELSE LET decl == definitions[name]
                       r == call_decl(decl, args, get_function(functions, decl))
                   IN  /\ functions' = Interned(functions, decl)
                       /\ IF r.err = "ok"
                          THEN /\ pending' = Append(SubSeq(pending, 1, first),
                                                    [tree |-> tree, st |-> r.st])
                               /\ pc' = "module"
                               /\ error' = error
                          ELSE /\ pending' = pending
                               /\ pc' = "failed"
                               /\ error' = Raise(r.err, r.pos, name, n)
    /\ UNCHANGED <<definitions, constants, statements, bytecode>>
    /\ UNCHANGED <<layoutVars, jsonVars, extractionVars, cacheVars, registryVars>>

\* visit_children(module): one statement's result joins the list start walks
statement ==
    /\ pc = "module"
    /\ Len(pending) = 1
    /\ statements' = Append(statements, pending[1])
    /\ pending' = <<>>
    /\ UNCHANGED <<pc, definitions, constants, functions, bytecode, error>>
    /\ UNCHANGED <<layoutVars, jsonVars, extractionVars, cacheVars, registryVars>>

\* Compiler.start, the loop over the statements: the instruction stream and
\* the maximum stack size after the first i statements
RECURSIVE start_instructions(_, _)
start_instructions(sts, i) ==
    IF i = 0 THEN <<>>
    ELSE LET s == sts[i].st
         IN  (start_instructions(sts, i - 1) \o s.instructions)
                 \o (IF s.types # <<>>
                     THEN <<AppliedInstruction(DISCARD, <<Len(s.types)>>)>>
                     ELSE <<>>)

\* a program's stack need taken from its last statement alone
start_max_size_of_last(sts, i) == IF i = 0 THEN 0 ELSE sts[i].st.max_size

RECURSIVE start_max_size(_, _)
start_max_size(sts, i) ==
    IF i = 0 THEN 0
    ELSE Max(start_max_size(sts, i - 1), sts[i].st.max_size)

\* Compiler.start, from the loop to the returned Bytecode
start ==
    /\ pc \in {"imports", "module"}
    /\ pending = <<>>
    /\ bytecode' = Bytecode(constants, functions,
                            start_instructions(statements, Len(statements)),
                            start_max_size(statements, Len(statements)))
    /\ pc' = "done"
    /\ UNCHANGED <<definitions, constants, functions, pending, statements, error>>
    /\ UNCHANGED <<layoutVars, jsonVars, extractionVars, cacheVars, registryVars>>

NextCompiler ==
    \/ cimport_list
    \/ string
    \/ call
    \/ statement
    \/ start

(***************************************************************************)
(* The instruction set's stack effects as an executor sees them: the depth *)
(* of the operand stack after running instrs from depth, -1 once an        *)
(* instruction pops more than the stack holds.                             *)
(***************************************************************************)
Pops(instr) ==
    CASE instr.ins = ARGUMENT -> 1
      [] instr.ins = DISCARD -> instr.args[1]
      [] OTHER -> 0

Pushes(instr) ==
    CASE instr.ins \in {LOAD_CONSTANT, CALL_FUNCTION, CALL_VAR} -> 1
      [] OTHER -> 0

RECURSIVE run_stack(_, _, _)
run_stack(instrs, i, depth) ==
    IF i > Len(instrs) THEN depth
    ELSE IF depth < Pops(instrs[i]) THEN -1
    ELSE run_stack(instrs, i + 1, depth - Pops(instrs[i]) + Pushes(instrs[i]))

\* the compiled expressions at hand: every call expression is one of them
\* right after Compiler.call returned its StackState
Entries == {pending[i] : i \in 1..Len(pending)} \cup {statements[i] : i \in 1..Len(statements)}

CallEntries == {e \in Entries : e.tree.op = "call"}

LastInstruction(st) == st.instructions[Len(st.instructions)]

\* the operand type an expression leaves: a literal a char pointer, a call
\* its declared return type
OperandType(tree) ==
    IF tree.op = "string" THEN c_char_p ELSE definitions[tree.name].return_type

\* the arguments of the call that raised the error: the last nargs results
FailedArgs == SubSeq(pending, Len(pending) - error.nargs + 1, Len(pending))

(***************************************************************************)
(* C1: a call that passes argument checking (and supplies every declared   *)
(* argument) compiles, and its closing                                     *)
(* instruction is CALL_VOID_FUNCTION for a void fixed-arity callee,        *)
(* CALL_VOID_VAR for a void variadic one, and CALL_FUNCTION or CALL_VAR    *)
(* carrying the declared argument count and the return type's tag for a    *)
(* non-void one.                                                           *)
(***************************************************************************)
C1_FourWayDispatch ==
    /\ error.kind = "closing_instruction" =>
          error.nargs < Len(definitions[error.name].arguments)
    /\ \A e \in CallEntries :
          LET decl == definitions[e.tree.name]
              last == LastInstruction(e.st)
              n == Len(last.args)
          IN  Len(e.tree.args) >= Len(decl.arguments) =>
              /\ n = last.ins.argc
              /\ IF decl.return_type = c_void
                 THEN last.ins = (IF decl.varargs THEN CALL_VOID_VAR ELSE CALL_VOID_FUNCTION)
                 ELSE /\ last.ins \in {CALL_FUNCTION, CALL_VAR}
                      /\ last.args[n] = get_type_id(decl.return_type)
                      /\ \E j \in 1..(n - 1) : last.args[j] = Len(decl.arguments)

(***************************************************************************)
(* C2: the instruction stream of an accepted program never pops from an    *)
(* empty operand stack and leaves the stack empty after each statement     *)
(* (stated for the programs whose calls supply every declared argument).   *)
(***************************************************************************)
RECURSIVE FullyApplied(_)
FullyApplied(tree) ==
    tree.op = "call" =>
        /\ Len(tree.args) >= Len(definitions[tree.name].arguments)
        /\ \A i \in 1..Len(tree.args) : FullyApplied(tree.args[i])

C2_StackBalanced ==
    (pc = "done" /\ \A i \in 1..Len(statements) : FullyApplied(statements[i].tree)) =>
        /\ run_stack(bytecode.instructions, 1, 0) = 0
        /\ \A i \in 1..Len(statements) :
              run_stack(start_instructions(statements, i), 1, 0) = 0

(***************************************************************************)
(* C3: no call to a non-variadic function with fewer arguments than it     *)
(* declares is compiled.                                                   *)
(***************************************************************************)
C3_TooFewArgumentsRejected ==
    \A e \in CallEntries :
        LET decl == definitions[e.tree.name]
        IN  ~decl.varargs => Len(e.tree.args) >= Len(decl.arguments)

(***************************************************************************)
(* C4: a compiled call has, at every position below the declared parameter *)
(* count, an argument of exactly the declared type, and arguments beyond   *)
(* it only if the callee is variadic; a call is refused for its argument   *)
(* at position i only if i is a declared position whose type differs or a  *)
(* trailing position of a non-variadic callee, every earlier position      *)
(* having passed.                                                          *)
(***************************************************************************)
ArgumentAccepted(decl, i, t) ==
    IF i < Len(decl.arguments) THEN t = decl.arguments[i + 1][2] ELSE decl.varargs

C4_ArgumentCheck ==
    /\ \A e \in CallEntries :
          \A i \in 0..(Len(e.tree.args) - 1) :
              ArgumentAccepted(definitions[e.tree.name], i, OperandType(e.tree.args[i + 1]))
    /\ error.kind \in {"arg_type", "too_many"} =>
          LET decl == definitions[error.name]
              t == FailedArgs[error.pos + 1].st.types[1]
          IN  /\ ~ArgumentAccepted(decl, error.pos, t)
              /\ (error.kind = "too_many") = (error.pos >= Len(decl.arguments))
              /\ \A i \in 0..(error.pos - 1) :
                    ArgumentAccepted(decl, i, FailedArgs[i + 1].st.types[1])
    /\ (pc = "failed" /\ error.kind \notin {"arg_type", "too_many", "KeyError"}) =>
          \A i \in 0..(Min(error.pos, error.nargs) - 1) :
              ArgumentAccepted(definitions[error.name], i, FailedArgs[i + 1].st.types[1])

\* printf("%s\n", puts("Hello World")) compiled: a trailing argument of type int
C4_Witness ==
    \E e \in CallEntries :
        /\ definitions[e.tree.name].varargs
        /\ Len(e.tree.args) = 2
        /\ OperandType(e.tree.args[2]) = c_int

(***************************************************************************)
(* C5: the program importing printf and calling printf("%s\n", "Hello      *)
(* World") compiles to the two literals in source order, printf at index 0 *)
(* and START_CALL(0,2) LOAD_CONSTANT(0) ARGUMENT(0,ptr) LOAD_CONSTANT(1)    *)
(* ARGUMENT(1,ptr) CALL_VAR(2,1,int) DISCARD(1).                            *)
(***************************************************************************)
HelloWorld ==
    CallTree("printf", <<StringTree("\"%s\\n\""), StringTree("\"Hello World\"")>>)

HelloWorldCompiled ==
    /\ pc = "done"
    /\ "printf" \in DOMAIN definitions
    /\ Len(statements) = 1
    /\ statements[1].tree = HelloWorld

C5_HelloWorld ==
    HelloWorldCompiled =>
        /\ bytecode.constants = <<"%s\n", "Hello World">>
        /\ bytecode.function_decls = <<printf>>
        /\ bytecode.instructions =
              << AppliedInstruction(START_CALL, <<0, 2>>),
                 AppliedInstruction(LOAD_CONSTANT, <<0>>),
                 AppliedInstruction(ARGUMENT, <<0, BASE_TYPE_IDS[c_void_p]>>),
                 AppliedInstruction(LOAD_CONSTANT, <<1>>),
                 AppliedInstruction(ARGUMENT, <<1, BASE_TYPE_IDS[c_void_p]>>),
                 AppliedInstruction(CALL_VAR, <<2, 1, BASE_TYPE_IDS[c_int]>>),
                 AppliedInstruction(DISCARD, <<1>>) >>

C5_Witness == HelloWorldCompiled /\ DOMAIN definitions = {"printf"}

\* the literal tokens of a tree, left to right: the order Compiler.string
\* interned them in
RECURSIVE Leaves(_)
Leaves(tree) ==
    IF tree.op = "string" THEN <<tree.tok>>
    ELSE LET RECURSIVE cat(_)
             cat(i) == IF i = 0 THEN <<>> ELSE cat(i - 1) \o Leaves(tree.args[i])
         IN  cat(Len(tree.args))

\* the callee names of a tree as its instructions open them (the enclosing
\* call first) and as Compiler.call interned them (the enclosing call last)
RECURSIVE CalleesOpened(_)
CalleesOpened(tree) ==
    IF tree.op = "string" THEN <<>>
    ELSE LET RECURSIVE cat(_)
             cat(i) == IF i = 0 THEN <<>> ELSE cat(i - 1) \o CalleesOpened(tree.args[i])
         IN  <<tree.name>> \o cat(Len(tree.args))

RECURSIVE CalleesInterned(_)
CalleesInterned(tree) ==
    IF tree.op = "string" THEN <<>>
    ELSE LET RECURSIVE cat(_)
             cat(i) == IF i = 0 THEN <<>> ELSE cat(i - 1) \o CalleesInterned(tree.args[i])
         IN  Append(cat(Len(tree.args)), tree.name)

\* the operands of an instruction stream's LOAD_CONSTANTs and START_CALLs
LoadOperands(instrs) ==
    LET IsLoad(x) == x.ins = LOAD_CONSTANT
        loads == SelectSeq(instrs, IsLoad)
    IN  [k \in 1..Len(loads) |-> loads[k].args[1]]

StartOperands(instrs) ==
    LET IsStart(x) == x.ins = START_CALL
        starts == SelectSeq(instrs, IsStart)
    IN  [k \in 1..Len(starts) |-> starts[k].args[1]]

\* the keys of a sequence of uses, each at its first use
RECURSIVE FirstUses(_)
FirstUses(uses) ==
    IF uses = <<>> THEN <<>>
    ELSE LET front == FirstUses(SubSeq(uses, 1, Len(uses) - 1))
             last == uses[Len(uses)]
         IN  IF Contains(front, last) THEN front ELSE Append(front, last)

\* every literal value and every callee used so far, in the order of use:
\* the finished statements, then the expressions still pending
RECURSIVE UsedConstants(_)
UsedConstants(entries) ==
    IF entries = <<>> THEN <<>>
    ELSE LET l == Leaves(Head(entries).tree)
         IN  [k \in 1..Len(l) |-> eval(l[k])] \o UsedConstants(Tail(entries))

RECURSIVE UsedFunctions(_)
UsedFunctions(entries) ==
    IF entries = <<>> THEN <<>>
    ELSE LET c == CalleesInterned(Head(entries).tree)
         IN  [k \in 1..Len(c) |-> definitions[c[k]]] \o UsedFunctions(Tail(entries))

NoDuplicates(table) ==
    \A i, j \in 1..Len(table) : table[i] = table[j] => i = j

\* the operands of one compiled expression name, in the given table, the
\* literal values and callees of its tree
OperandsIndex(e, cs, fs) ==
    LET loads == LoadOperands(e.st.instructions)
        leaves == Leaves(e.tree)
        starts == StartOperands(e.st.instructions)
        callees == CalleesOpened(e.tree)
    IN  /\ Len(loads) = Len(leaves)
        /\ \A k \in 1..Len(loads) :
              /\ loads[k] \in 0..(Len(cs) - 1)
              /\ cs[loads[k] + 1] = eval(leaves[k])
        /\ Len(starts) = Len(callees)
        /\ \A k \in 1..Len(starts) :
              /\ starts[k] \in 0..(Len(fs) - 1)
              /\ fs[starts[k] + 1] = definitions[callees[k]]

(***************************************************************************)
(* C16: within one compilation the constant table and the function table   *)
(* hold each key once, in the order of first use; an operand emitted       *)
(* earlier still names its literal value or callee in the table as it is   *)
(* now, and in the constants and function_decls of the finished Bytecode;  *)
(* equal literal values share one entry.                                   *)
(***************************************************************************)
C16_InternedInFirstUseOrder ==
    /\ NoDuplicates(constants)
    /\ NoDuplicates(functions)
    /\ pc # "failed" =>
          /\ constants = FirstUses(UsedConstants(statements \o pending))
          /\ functions = FirstUses(UsedFunctions(statements \o pending))
    /\ \A e \in Entries : OperandsIndex(e, constants, functions)
    /\ pc = "done" =>
          /\ bytecode.constants = constants
          /\ bytecode.function_decls = functions
          /\ LoadOperands(bytecode.instructions) =
                [k \in 1..Len(UsedConstants(statements)) |->
                    IndexOf(bytecode.constants, UsedConstants(statements)[k])]
          /\ \A i \in 1..Len(statements) :
                OperandsIndex(statements[i], bytecode.constants, bytecode.function_decls)

\* a finished compilation in which a literal spelled in two ways took the
\* second entry of the pool once, and both uses load index 1
C16_Witness ==
    /\ pc = "done"
    /\ Len(bytecode.constants) = 2
    /\ LET uses == UsedConstants(statements)
           loads == LoadOperands(bytecode.instructions)
       IN  \E i, j \in 1..Len(loads) :
              /\ i < j
              /\ loads[i] = 1
              /\ loads[j] = 1
              /\ UsedConstants(statements)[i] = UsedConstants(statements)[j]

\* the stack need of an expression by the closed form: 1 for a literal; for
\* a call 1 for the pending call marker, one slot per argument already
\* resolved, and the current argument's own need
RECURSIVE ClosedFormSize(_)
ClosedFormSize(tree) ==
    IF tree.op = "string" THEN 1
    ELSE LET RECURSIVE most(_)
             most(n) == IF n = 0 THEN 1
                        ELSE Max(most(n - 1), 1 + (n - 1) + ClosedFormSize(tree.args[n]))
         IN  most(Len(tree.args))

RECURSIVE LargestStatement(_)
LargestStatement(n) ==
    IF n = 0 THEN 0 ELSE Max(LargestStatement(n - 1), ClosedFormSize(statements[n].tree))

(***************************************************************************)
(* C17: a compiled string literal has max_size 1; a compiled call with     *)
(* arguments a_0..a_{n-1} has max_size max(1, max_i(1 + i + max_size(a_i)));*)
(* the Bytecode's max_size is the largest max_size of a top-level          *)
(* statement, 0 when there is none.                                        *)
(***************************************************************************)
C17_MaxSize ==
    /\ \A e \in Entries : e.st.max_size = ClosedFormSize(e.tree)
    /\ pc = "done" => bytecode.max_size = LargestStatement(Len(statements))

\* a finished program whose statement passes a call as the second argument
\* of a call: the inner call needs 2, the outer one 1 + 1 + 2
C17_Witness ==
    /\ pc = "done"
    /\ Len(statements) = 1
    /\ statements[1].tree.op = "call"
    /\ Len(statements[1].tree.args) = 2
    /\ statements[1].tree.args[2].op = "call"
    /\ Len(statements[1].tree.args[2].args) = 1
    /\ statements[1].st.max_size = 4
    /\ bytecode.max_size = 4

\* the instructions that close a frame
IsCall(instr) ==
    instr.ins \in {CALL_FUNCTION, CALL_VOID_FUNCTION, CALL_VAR, CALL_VOID_VAR}

\* ExprEnd: the index after the complete expression that starts at i (one
\* LOAD_CONSTANT, or a frame from its START_CALL(f, n) to the CALL_* with
\* first operand n), 0 if none starts there.  ArgumentsEnd: the index after
\* the arguments k..n-1 of a frame, each a complete expression followed at
\* once by ARGUMENT(k, _), 0 if they are not there.
RECURSIVE ExprEnd(_, _)
RECURSIVE ArgumentsEnd(_, _, _, _)
ExprEnd(instrs, i) ==
    IF i > Len(instrs) THEN 0
    ELSE IF instrs[i].ins = LOAD_CONSTANT THEN i + 1
    ELSE IF instrs[i].ins = START_CALL
    THEN LET n == instrs[i].args[2]
             j == ArgumentsEnd(instrs, i + 1, 0, n)
         IN  IF j = 0 \/ j > Len(instrs) THEN 0
             ELSE IF IsCall(instrs[j]) /\ instrs[j].args[1] = n THEN j + 1
             ELSE 0
    ELSE 0

ArgumentsEnd(instrs, i, k, n) ==
    IF k = n THEN i
    ELSE LET j == ExprEnd(instrs, i)
         IN  IF j = 0 \/ j > Len(instrs) THEN 0
             ELSE IF instrs[j].ins = ARGUMENT /\ instrs[j].args[1] = k
             THEN ArgumentsEnd(instrs, j + 1, k + 1, n)
             ELSE 0

\* a program's stream from index i on: complete expressions, each followed
\* by at most one DISCARD, and nothing else
RECURSIVE ProperlyNested(_, _, _)
ProperlyNested(instrs, i, after_expression) ==
    IF i > Len(instrs) THEN TRUE
    ELSE IF instrs[i].ins = DISCARD
    THEN after_expression /\ ProperlyNested(instrs, i + 1, FALSE)
    ELSE LET j == ExprEnd(instrs, i)
         IN  j # 0 /\ ProperlyNested(instrs, j, TRUE)

\* the frame of an expression has the shape of its tree: as many arguments
\* as the call has, each the frame of the argument's own tree
RECURSIVE FrameOf(_, _, _)
FrameOf(tree, instrs, i) ==
    IF tree.op = "string"
    THEN i <= Len(instrs) /\ instrs[i].ins = LOAD_CONSTANT
    ELSE /\ i <= Len(instrs)
         /\ instrs[i].ins = START_CALL
         /\ instrs[i].args[2] = Len(tree.args)
         /\ \A k \in 1..Len(tree.args) :
               LET from == ArgumentsEnd(instrs, i + 1, 0, k - 1)
               IN  from # 0 /\ FrameOf(tree.args[k], instrs, from)

(***************************************************************************)
(* C19: in every instruction stream the compiler emits the call frames are *)
(* properly nested: a START_CALL(f, n) is closed by one later CALL_* whose *)
(* first operand is n, with exactly the ARGUMENTs 0..n-1 in order between  *)
(* them at that level, each right after the complete instructions of its   *)
(* own argument expression; no ARGUMENT or CALL_* stands outside a frame.  *)
(***************************************************************************)
C19_FramesProperlyNested ==
    /\ \A e \in Entries :
          /\ ExprEnd(e.st.instructions, 1) = Len(e.st.instructions) + 1
          /\ FrameOf(e.tree, e.st.instructions, 1)
    /\ pc = "done" => ProperlyNested(bytecode.instructions, 1, FALSE)

\* a finished program with a frame inside a frame: the inner START_CALL
\* follows ARGUMENT(0, _) of a two-argument frame and closes before its
\* ARGUMENT(1, _)
C19_Witness ==
    /\ pc = "done"
    /\ LET instrs == bytecode.instructions
       IN  \E i, j \in 1..Len(instrs) :
              /\ i < j
              /\ instrs[i].ins = START_CALL
              /\ instrs[i].args[2] = 2
              /\ instrs[j - 1].ins = ARGUMENT
              /\ instrs[j].ins = START_CALL
              /\ ExprEnd(instrs, j) # 0
              /\ ExprEnd(instrs, j) < ExprEnd(instrs, i)
              /\ instrs[ExprEnd(instrs, j)].ins = ARGUMENT
              /\ instrs[ExprEnd(instrs, j)].args[1] = 1

(***************************************************************************)
(* C6: the answer of a layout call on (t, pack) is the answer the same     *)
(* call gives on the caches as the module's import leaves them, whatever   *)
(* calls were made before (stated where that fresh call succeeds).         *)
(***************************************************************************)
FreshAnswer(op, t, pack) ==
    CASE op = "sizeof" -> sizeof(t, pack, InitialCaches)
      [] op = "alignof" -> alignof(t, pack, InitialCaches)
      [] op = "offsetsof" -> offsetsof(t, pack, InitialCaches)

C6_LayoutFunctionOfTypeAndPack ==
    query.op # "none" =>
        LET fresh == FreshAnswer(query.op, query.t, query.pack)
        IN  fresh.err = "ok" =>
                /\ query.err = "ok"
                /\ query.val = fresh.val
                /\ query.offsets = fresh.offsets

(***************************************************************************)
(* C9: sizeof of a union without members raises on every call, and sizeof  *)
(* never returns 0 for a union.                                            *)
(***************************************************************************)
C9_ZeroSizedUnionRejected ==
    (query.op = "sizeof" /\ query.t.k = "CUnion") =>
        /\ query.t.decls = <<>> => query.err # "ok"
        /\ query.err = "ok" => query.val # 0

(***************************************************************************)
(* C10: for a union with a member of non-zero size, sizeof is the maximum  *)
(* of sizeof over the members and offsetsof maps every named member to 0;  *)
(* flattened into a struct as an unnamed field, its members all get the    *)
(* offset of that field.                                                   *)
(***************************************************************************)
MemberSize(t, i) == sizeof(t.decls[i][2], DefaultPack, Caches).val

SizedUnion(t) ==
    /\ t.k = "CUnion"
    /\ \A i \in 1..Len(t.decls) : sizeof(t.decls[i][2], DefaultPack, InitialCaches).err = "ok"
    /\ \E i \in 1..Len(t.decls) : sizeof(t.decls[i][2], DefaultPack, InitialCaches).val > 0

C10_UnionSizeAndOffsets ==
    /\ (query.op = "sizeof" /\ SizedUnion(query.t)) =>
          /\ query.err = "ok"
          /\ \A i \in 1..Len(query.t.decls) : query.val >= MemberSize(query.t, i)
          /\ \E i \in 1..Len(query.t.decls) : query.val = MemberSize(query.t, i)
    /\ (query.op = "offsetsof" /\ SizedUnion(query.t)) =>
          /\ query.err = "ok"
          /\ \A i \in 1..Len(query.t.decls) :
                query.t.decls[i][1] # None => query.offsets[query.t.decls[i][1][1]] = 0
    /\ (query.op = "offsetsof" /\ query.t = S3) =>
          /\ query.err = "ok"
          /\ query.offsets["i"] = query.offsets["c"]

(***************************************************************************)
(* Structs whose fields are all named and have a layout, and what a call   *)
(* of sizeof / alignof on a field's type answers in this process.          *)
(***************************************************************************)
MemberAlign(t, i) == alignof(t.decls[i][2], DefaultPack, Caches).val

NamedStruct(t) ==
    /\ t.k = "CStruct"
    /\ \A i \in 1..Len(t.decls) :
          /\ t.decls[i][1] # None
          /\ sizeof(t.decls[i][2], DefaultPack, InitialCaches).err = "ok"

FieldOffset(offsets, t, i) == offsets[t.decls[i][1][1]]

(***************************************************************************)
(* C11: the offsets offsetsof(struct, p) returns for a struct of named     *)
(* fields start at 0, and every field lies at or after the end of the      *)
(* field before it, at a multiple of min(p, alignof(its type)).            *)
(***************************************************************************)
C11_StructOffsets ==
    (query.op = "offsetsof" /\ NamedStruct(query.t) /\ query.err = "ok") =>
        LET t == query.t
            n == Len(t.decls)
        IN  /\ n > 0 => FieldOffset(query.offsets, t, 1) = 0
            /\ \A i \in 1..(n - 1) :
                  /\ FieldOffset(query.offsets, t, i + 1)
                        >= FieldOffset(query.offsets, t, i) + MemberSize(t, i)
                  /\ FieldOffset(query.offsets, t, i + 1)
                        % Min(query.pack, MemberAlign(t, i + 1)) = 0

(***************************************************************************)
(* C12: alignof(struct, p) is the largest min(p, alignof(field type)), 1   *)
(* without fields; sizeof(struct, p) is the least multiple of it at or     *)
(* after the end of the last field, 1 in place of 0; struct {char a; int   *)
(* b;} under p = 8 has a at 0, b at 4, size 8 and alignment 4.             *)
(***************************************************************************)
RECURSIVE StructAlign(_, _, _)
StructAlign(t, p, i) ==
    IF i = 0 THEN 1 ELSE Max(StructAlign(t, p, i - 1), Min(p, MemberAlign(t, i)))

LastFieldEnd(t) ==
    IF t.decls = <<>> THEN 0
    ELSE FieldOffset(offsets_cache[t], t, Len(t.decls)) + MemberSize(t, Len(t.decls))

LeastMultiple(a, n) == CHOOSE m \in n..(n + a - 1) : m % a = 0

C12_StructAlignAndSize ==
    /\ (query.op = "alignof" /\ NamedStruct(query.t) /\ query.err = "ok") =>
          query.val = StructAlign(query.t, query.pack, Len(query.t.decls))
    /\ (query.op = "sizeof" /\ NamedStruct(query.t) /\ query.err = "ok") =>
          LET size == LeastMultiple(StructAlign(query.t, query.pack, Len(query.t.decls)),
                                    LastFieldEnd(query.t))
          IN  query.val = IF size = 0 THEN 1 ELSE size
    /\ (query.t = S1 /\ query.pack = 8 /\ query.err = "ok") =>
          CASE query.op = "sizeof" -> query.val = 8
            [] query.op = "alignof" -> query.val = 4
            [] query.op = "offsetsof" -> query.offsets = [a |-> 0, b |-> 4]

(***************************************************************************)
(* C7: decoding the encoding of a type gives the type back:                *)
(* from_json(t.to_json()) = t.                                             *)
(***************************************************************************)
C7_JsonRoundTrip ==
    jpc = "decoded" => (jback.ok /\ jback.t = jtype)

(***************************************************************************)
(* The struct and union nodes of the declarations visited, in the order    *)
(* to_c_type finishes them: the nodes of a field list before the node      *)
(* that carries the list.                                                  *)
(***************************************************************************)
RECURSIVE Aggregates(_)
RECURSIVE AggregatesOfDecls(_, _)

Aggregates(node) ==
    CASE node.node \in {"TypeDecl", "PtrDecl"} -> Aggregates(node.type)
      [] node.node \in {"Struct", "Union"} ->
            (IF node.decls = None THEN <<>> ELSE AggregatesOfDecls(node.decls[1], 1))
            \o <<node>>
      [] OTHER -> <<>>

AggregatesOfDecls(decls, i) ==
    IF i > Len(decls) THEN <<>>
    ELSE Aggregates(decls[i].type) \o AggregatesOfDecls(decls, i + 1)

RECURSIVE History(_)
History(n) == IF n = 0 THEN <<>> ELSE History(n - 1) \o Aggregates(seen[n])

\* the type a declaration with a field list defines
Defines(node) == to_c_type(node, [types |-> <<>>, structs |-> <<>>, unions |-> <<>>]).t

Declares(node, kind, name) == node.node = kind /\ node.name = Some(name)

Complete(node) == node.decls # None

\* declaration j of the history has a field list, and an earlier declaration
\* of the same name defines another type
Conflicting(h, j) ==
    /\ h[j].name # None
    /\ Complete(h[j])
    /\ \E i \in 1..(j - 1) :
          /\ Declares(h[i], h[j].node, h[j].name[1])
          /\ Complete(h[i])
          /\ Defines(h[i]) # Defines(h[j])

\* the declarations before the first conflicting one
Accepted ==
    LET h == History(Len(seen))
        bad == {j \in 1..Len(h) : Conflicting(h, j)}
    IN  IF bad = {} THEN h
        ELSE SubSeq(h, 1, (CHOOSE j \in bad : \A k \in bad : j <= k) - 1)

Refused == Len(Accepted) < Len(History(Len(seen)))

\* what the namespace of a kind has to hold under a name
Stored(kind, name) ==
    LET h == Accepted
        all == {j \in 1..Len(h) : Declares(h[j], kind, name)}
        full == {j \in all : Complete(h[j])}
    IN  IF full # {} THEN Some(Defines(h[CHOOSE j \in full : \A k \in full : j <= k]))
        ELSE IF all # {}
             THEN Some(IF kind = "Struct" THEN COpaqueStruct(name) ELSE COpaqueUnion(name))
             ELSE None

Lookup(table, name) == IF name \in DOMAIN table THEN Some(table[name]) ELSE None

AggregateNames == {"A", "B"}

(***************************************************************************)
(* C8: under one name, structs[name] (unions[name]) is absent until the    *)
(* name is declared, an opaque placeholder until the first declaration     *)
(* with a field list, and that declaration's type from then on: a later    *)
(* mention without fields does not revert it, an identical redeclaration   *)
(* is accepted, and a redeclaration that defines another type fails and    *)
(* leaves the entry as it was.                                             *)
(***************************************************************************)
C8_FirstCompleteDeclarationWins ==
    /\ \A name \in AggregateNames :
          /\ Lookup(structs, name) = Stored("Struct", name)
          /\ Lookup(unions, name) = Stored("Union", name)
    /\ Refused => xpc = "failed"
    /\ (~Refused /\ \A n \in 1..Len(seen) : seen[n] \in AggregateNodes) => xpc = "visiting"

\* a placeholder was replaced, then mentioned and redeclared identically,
\* and a redeclaration with other fields was refused
C8_Witness ==
    LET h == History(Len(seen))
    IN  /\ Refused
        /\ xpc = "failed"
        /\ \E i, j, k, l \in 1..Len(h) :
              /\ i < j /\ j < k /\ k < l
              /\ Declares(h[i], "Struct", "A") /\ ~Complete(h[i])
              /\ Declares(h[j], "Struct", "A") /\ Complete(h[j])
              /\ Declares(h[k], "Struct", "A") /\ ~Complete(h[k])
              /\ Declares(h[l], "Struct", "A") /\ Complete(h[l])
              /\ Defines(h[l]) = Defines(h[j])
              /\ l = Len(Accepted)
        /\ structs["A"].k = "CStruct"

(***************************************************************************)
(* C13: a call with caching on a header extracted with success since the   *)
(* last invalidation runs no tool, does not fail and leaves the cache      *)
(* directory as it is; a no_cache call neither reads nor writes the        *)
(* cache; and a call that returns with no_cache set, or on a header not    *)
(* extracted since the last invalidation, has run the tools.               *)
(***************************************************************************)
C13_Step ==
    LET now == xh[1]
        then == xh'[1]
    IN  /\ (~Finished(1) /\ ~now.no_cache /\ now.warm) =>
              /\ cache_dir' = cache_dir
              /\ ~then.ran_tools
              /\ then.pc # "failed"
        /\ (~Finished(1) /\ now.no_cache) =>
              /\ cache_dir' = cache_dir
              /\ ~then.read_cache
              /\ ~then.wrote_cache
        /\ (~Finished(1) /\ then.pc = "returned" /\ (now.no_cache \/ ~now.warm)) =>
              then.ran_tools

C13_CacheHitRunsNoTool == [][C13_Step]_vars

\* the last call allowed returned a header extracted before from its cache
\* file, which is as the call found it
C13_Witness ==
    /\ xh[1].pc = "returned"
    /\ ~xh[1].no_cache
    /\ xh[1].warm
    /\ xh[1].read_cache
    /\ xh[1].entry # None
    /\ FileOf(xh[1].header) = xh[1].entry
    /\ ncalls = MaxCalls

(***************************************************************************)
(* C14: whatever the other process does, a call with caching on a header   *)
(* that a process alone extracts with success does not fail, reads no      *)
(* empty or partly written cache file, and returns the store a process     *)
(* alone returns (the extracted one, or the one loaded from its encoding). *)
(***************************************************************************)
SolitaryStores(name) ==
    LET fresh == run_tools(name).store
    IN  {fresh, FullHeader_from_json(FullHeader_to_json(fresh)).store}

Extractable(name) == endswith(name, ".h") /\ run_tools(name).err = "ok"

C14_RaceHarmless ==
    \A p \in Procs :
        (~xh[p].no_cache /\ Extractable(xh[p].header)) =>
            /\ xh[p].err # "JSONDecodeError"
            /\ xh[p].pc # "failed"
            /\ (xh[p].pc = "returned" /\ xh[p].late = "none") =>
                  xh[p].store \in SolitaryStores(xh[p].header)

(***************************************************************************)
(* C18: every namespace of a store extract_header has returned is a        *)
(* frozen snapshot, and no assignment into the store takes effect.         *)
(***************************************************************************)
C18_ReturnedStoreFrozen ==
    \A p \in Procs :
        xh[p].pc = "returned" =>
            /\ xh[p].store.frozen = Namespaces
            /\ xh[p].late # "stored"

(***************************************************************************)
(* C15: get_proc on a name the header declares returns what the first      *)
(* resolution of that name returned; on any other name it raises an error  *)
(* that names the symbol and the header and leaves the function cache of   *)
(* the header as it was, on every call.                                    *)
(***************************************************************************)
Mentions(msg, str) ==
    \E i \in 1..Len(msg) : i + Len(str) - 1 <= Len(msg) /\ SubSeq(msg, i, i + Len(str) - 1) = str

C15_GetProc ==
    /\ function_cache = known_headers
    /\ proc.err = "ok" =>
          /\ proc.name \in DOMAIN known_headers[proc.header]
          /\ proc.decl = Some(first_proc[<<proc.header, proc.name>>])
    /\ (proc.err # "none" /\ proc.name \notin DOMAIN known_headers[proc.header]) =>
          /\ proc.err = "ValueError"
          /\ Mentions(proc.msg, proc.name)
          /\ Mentions(proc.msg, proc.header)
          /\ proc.name \notin DOMAIN function_cache[proc.header]

\* an unknown name was looked up after the names of the header were resolved
C15_Witness ==
    /\ proc.err = "ValueError"
    /\ proc.header = "stdio.h"
    /\ \A n \in DOMAIN known_headers["stdio.h"] : <<"stdio.h", n>> \in DOMAIN first_proc

Init == InitCompiler /\ InitLayout /\ InitJson /\ InitExtraction /\ InitCache /\ InitRegistry

\* one compilation
SpecCompiler == Init /\ [][NextCompiler]_vars

\* one process making layout calls
SpecLayout == Init /\ [][NextLayout]_vars

\* one type encoded and decoded again
SpecJson == Init /\ [][NextJson]_vars

\* one header's declarations visited
SpecExtraction == Init /\ [][NextExtraction]_vars

\* the calls of one process on the header cache
SpecCache == Init /\ [][NextCache]_vars

\* get_proc calls on the registry's headers
SpecRegistry == Init /\ [][NextRegistry]_vars

\* two processes on the header cache
SpecRace == Init /\ [][NextRace]_vars

====
